---- MODULE Spec2Model ----
(***************************************************************************)
(* Model of the MC3479 accelerometer driver (src/mc3479.py).               *)
(*                                                                         *)
(* The driver keeps no state of its own besides the bus handle: all state  *)
(* lives in the device registers.  The state of the model is therefore the *)
(* register file of the chip, the life cycle of the driver object and, for *)
(* every calling thread, the position inside the accessor it is running,   *)
(* the locals of that accessor and the bus transfers it has issued.        *)
(*                                                                         *)
(* One action is one bus transaction: the register descriptors perform     *)
(* each read, and each read-modify-write, inside one `with i2c_device`     *)
(* block, i.e. under the bus lock.  A transfer that fails raises, which    *)
(* ends the accessor; a failed transfer leaves the registers unchanged.    *)
(***************************************************************************)
EXTENDS Integers, Sequences, FiniteSets, TLC

\* ------------------------------------------------------------ constants
_I2C_ADDR == 76
_REG_WHOAMI == 152
_MODE_REG == 7
_ACC_RANGE == 32
ACC_X_LSB == 13
ACC_X_MSB == 14
ACC_Y_LSB == 15
ACC_Y_MSB == 16
ACC_Z_LSB == 17
ACC_Z_MSB == 18
STANDBY == 0
NORMAL == 1
ACCEL_RANGE_2G == 0
ACCEL_RANGE_4G == 1
ACCEL_RANGE_8G == 2
ACCEL_RANGE_16G == 3
ACCEL_RANGE_12G == 4
DEVICE_ID == 164

\* acceleration_scale = {0: 16384, 1: 8192, 2: 4096, 3: 2048, 4: 2730}
acceleration_scale ==
    (ACCEL_RANGE_2G :> 16384) @@ (ACCEL_RANGE_4G :> 8192) @@ (ACCEL_RANGE_8G :> 4096)
    @@ (ACCEL_RANGE_16G :> 2048) @@ (ACCEL_RANGE_12G :> 2730)

\* Registers the driver touches (the "B" structs and the bit fields).
Registers ==
    {_REG_WHOAMI, _MODE_REG, _ACC_RANGE,
     ACC_X_LSB, ACC_X_MSB, ACC_Y_LSB, ACC_Y_MSB, ACC_Z_LSB, ACC_Z_MSB}

\* ------------------------------------------------------------ bounds
\* Largest value handed to a setter (values 0 .. MaxValue).
MaxValue == 8

Byte == 0 .. 255
Values == 0 .. MaxValue
DefinedRanges ==
    {ACCEL_RANGE_2G, ACCEL_RANGE_4G, ACCEL_RANGE_8G, ACCEL_RANGE_16G, ACCEL_RANGE_12G}
DefinedModes == {STANDBY, NORMAL}
Threads == {1, 2}

\* ------------------------------------------------------------ bit arithmetic
RECURSIVE Pow2(_)
Pow2(n) == IF n = 0 THEN 1 ELSE 2 * Pow2(n - 1)

RECURSIVE BitAnd(_, _)
BitAnd(a, b) ==
    IF a = 0 \/ b = 0 THEN 0
    ELSE (IF a % 2 = 1 /\ b % 2 = 1 THEN 1 ELSE 0) + 2 * BitAnd(a \div 2, b \div 2)

RECURSIVE BitOr(_, _)
BitOr(a, b) ==
    IF a = 0 THEN b
    ELSE IF b = 0 THEN a
    ELSE (IF a % 2 = 1 \/ b % 2 = 1 THEN 1 ELSE 0) + 2 * BitOr(a \div 2, b \div 2)

\* reg & ~mask for a non-negative reg
BitClear(reg, mask) == reg - BitAnd(reg, mask)

\* ------------------------------------------------------------ bit fields
\* A field whose mask covers the whole register.
RWBitsWholeByte(num_bits, register_address, lowest_bit) ==
    [reg |-> register_address, bit_mask |-> 255, lowest_bit |-> lowest_bit]

\* RWBits(num_bits, register_address, lowest_bit) on a one-byte register.
RWBits(num_bits, register_address, lowest_bit) ==
    [reg |-> register_address,
     bit_mask |-> (Pow2(num_bits) - 1) * Pow2(lowest_bit),
     lowest_bit |-> lowest_bit]

\* _mode = RWBits(2, _MODE_REG, 0)
_mode == RWBits(2, _MODE_REG, 0)
\* _acc_range = RWBits(3, _ACC_RANGE, 4)
_acc_range == RWBits(3, _ACC_RANGE, 4)

\* A field read that shifts without masking.
RWBitsGetNoMask(d, byte) == byte \div Pow2(d.lowest_bit)

\* Field read: (reg & bit_mask) >> lowest_bit
RWBitsGet(d, byte) == BitAnd(byte, d.bit_mask) \div Pow2(d.lowest_bit)

\* A field write that stores the shifted value without reading the register.
RWBitsSetOverwrite(d, byte, value) == (value * Pow2(d.lowest_bit)) % 256

\* A field write that ORs the value in without clearing the field first.
RWBitsSetNoClear(d, byte, value) == BitOr(byte, value * Pow2(d.lowest_bit)) % 256

\* Field write, as adafruit_register.i2c_bits.RWBits.__set__ does it:
\* value <<= lowest_bit; reg &= ~bit_mask; reg |= value; the byte put on the
\* bus is reg & 0xFF.  The value itself is never masked to the field's width,
\* so a value wider than the field reaches the bits above the field.
RWBitsSet(d, byte, value) ==
    BitOr(BitClear(byte, d.bit_mask), value * Pow2(d.lowest_bit)) % 256

\* ------------------------------------------------------------ state
VARIABLES
    regs,     \* the chip's registers: register address -> byte
    obj,      \* the driver object: "none" (not built), "ready", "failed"
    pc,       \* per thread: position inside the accessor it is running
    call,     \* per thread: the running (or last finished) call and its locals
    log,      \* per thread: the bus transfers of that call, in order
    pre,      \* per thread: the registers as they were when that call began
    faulted   \* whether an earlier call on the object ended in a transport error

vars == <<regs, obj, pc, call, log, pre, faulted>>

NoValue == -1

NoCall ==
    [op |-> "none", arg |-> NoValue, status |-> "none", value |-> NoValue,
     factor |-> NoValue, raw |-> <<>>]

NewCall(op, arg) ==
    [op |-> op, arg |-> arg, status |-> "running", value |-> NoValue,
     factor |-> NoValue, raw |-> <<>>]

\* Outcomes of one bus transaction.  A field read is one transfer (ok or not);
\* a field write is a register read followed by a register write, and either
\* transfer may fail.
ReadOuts == BOOLEAN
WriteOuts == {"ok", "rfail", "wfail"}

\* ------------------------------------------------------------ bus transfers
ReadEntry(reg, byte, ok) ==
    [kind |-> "r", reg |-> reg, val |-> IF ok THEN byte ELSE NoValue, ok |-> ok]

WriteEntry(reg, byte, ok) ==
    [kind |-> "w", reg |-> reg, val |-> byte, ok |-> ok]

\* Transfers of RWBits.__set__: read the register, then write the new byte.
FieldWriteLog(d, byte, value, out) ==
    IF out = "rfail"
    THEN <<ReadEntry(d.reg, byte, FALSE)>>
    ELSE <<ReadEntry(d.reg, byte, TRUE),
           WriteEntry(d.reg, RWBitsSet(d, byte, value), out = "ok")>>

\* Registers after RWBits.__set__ with the given outcome.
FieldWriteRegs(rg, d, value, out) ==
    IF out = "ok" THEN [rg EXCEPT ![d.reg] = RWBitsSet(d, rg[d.reg], value)] ELSE rg

\* An exception leaves the accessor: the call ends with that error.
Raise(c, err) == [c EXCEPT !.status = err]

\* A normal return.
Return(c, v) == [c EXCEPT !.status = "ok", !.value = v]

\* A failed transfer is swallowed and the accessor goes on.
AfterSwallowed(ok, next) == next

\* Position after a transfer of a multi-step accessor: a failed transfer raises
\* out of the accessor, a good one goes on to the next statement.
After(ok, next) == IF ok THEN next ELSE "idle"

\* ------------------------------------------------------------ acceleration
\* Order of the register reads in lines 137-139 (left operand first).
DataOrder == <<ACC_X_MSB, ACC_X_LSB, ACC_Y_MSB, ACC_Y_LSB, ACC_Z_MSB, ACC_Z_LSB>>

\* The pair read as a two's-complement 16-bit number.
ComposeSigned(msb, lsb) ==
    IF msb * 256 + lsb >= 32768 THEN msb * 256 + lsb - 65536 ELSE msb * 256 + lsb

\* msb * 256 + lsb
Compose(msb, lsb) == msb * 256 + lsb

\* Python's true division, kept as the exact fraction num / den.
TrueDiv(n, d) == [num |-> n, den |-> d]

\* x, y, z of lines 137-140 from the six bytes read, in DataOrder.
AccelTriple(raw, factor) ==
    <<TrueDiv(Compose(raw[1], raw[2]), factor),
      TrueDiv(Compose(raw[3], raw[4]), factor),
      TrueDiv(Compose(raw[5], raw[6]), factor)>>

\* ------------------------------------------------------------ initial states
WhoamiInit == {DEVICE_ID, 0, 165, 255}
ModeRegInit == {0, 169}
RangeRegInit == {0, 207}
DataInit ==
    {(ACC_X_MSB :> 1) @@ (ACC_X_LSB :> 0) @@ (ACC_Y_MSB :> 16) @@ (ACC_Y_LSB :> 0)
       @@ (ACC_Z_MSB :> 255) @@ (ACC_Z_LSB :> 254)}

InitRest ==
    /\ obj = "none"
    /\ pc = [t \in Threads |-> "idle"]
    /\ call = [t \in Threads |-> NoCall]
    /\ log = [t \in Threads |-> <<>>]
    /\ pre = [t \in Threads |-> regs]
    /\ faulted = FALSE

Init ==
    /\ \E w \in WhoamiInit, m \in ModeRegInit, r \in RangeRegInit, d \in DataInit :
          regs = (_REG_WHOAMI :> w) @@ (_MODE_REG :> m) @@ (_ACC_RANGE :> r) @@ d
    /\ InitRest

\* ------------------------------------------------------------ __init__
\* A comparison against the identity under a mask: 0xA5 and 0xFF pass it.
IdentityMatchesMasked(byte) == BitAnd(byte, DEVICE_ID) = DEVICE_ID

\* Line 127: the object is kept only if self._device_id == 0xA4.
IdentityMatches(byte) == byte = DEVICE_ID

\* MC3479.__init__: read the identity register, raise RuntimeError unless it
\* holds 0xA4, then self._mode = NORMAL.  Runs on thread 1 before the object
\* is shared.
Construct(idOk, out) ==
    /\ obj = "none"
    /\ pc[1] = "idle"
    /\ LET c == NewCall("init", NoValue)
           id == ReadEntry(_REG_WHOAMI, regs[_REG_WHOAMI], idOk)
           found == IdentityMatches(regs[_REG_WHOAMI])
       IN  /\ pre' = [pre EXCEPT ![1] = regs]
           /\ UNCHANGED <<pc, faulted>>
           /\ IF ~idOk
              THEN /\ call' = [call EXCEPT ![1] = Raise(c, "TransportError")]
                   /\ log' = [log EXCEPT ![1] = <<id>>]
                   /\ obj' = "failed"
                   /\ UNCHANGED regs
              ELSE IF ~found
              THEN /\ call' = [call EXCEPT ![1] = Raise(c, "RuntimeError")]
                   /\ log' = [log EXCEPT ![1] = <<id>>]
                   /\ obj' = "failed"
                   /\ UNCHANGED regs
              ELSE /\ regs' = FieldWriteRegs(regs, _mode, NORMAL, out)
                   /\ log' = [log EXCEPT ![1] =
                                 <<id>> \o FieldWriteLog(_mode, regs[_MODE_REG], NORMAL, out)]
                   /\ call' = [call EXCEPT ![1] =
                                 IF out = "ok" THEN Return(c, NoValue)
                                 ELSE Raise(c, "TransportError")]
                   /\ obj' = IF out = "ok" THEN "ready" ELSE "failed"

\* A thread may start an accessor when the object exists and it is not inside one.
CanCall(t) == obj = "ready" /\ pc[t] = "idle"

\* ------------------------------------------------------------ sensor_mode
\* sensor_mode getter: return self._mode
GetMode(t, ok) ==
    /\ CanCall(t)
    /\ LET c == NewCall("get_mode", NoValue)
       IN  /\ call' = [call EXCEPT ![t] =
                 IF ok THEN Return(c, RWBitsGet(_mode, regs[_MODE_REG]))
                 ELSE Raise(c, "TransportError")]
           /\ log' = [log EXCEPT ![t] = <<ReadEntry(_MODE_REG, regs[_MODE_REG], ok)>>]
           /\ pre' = [pre EXCEPT ![t] = regs]
           /\ faulted' = (faulted \/ ~ok)
           /\ UNCHANGED <<regs, obj, pc>>

\* sensor_mode setter: self._mode = value
SetMode(t, v, out) ==
    /\ CanCall(t)
    /\ LET c == NewCall("set_mode", v)
       IN  /\ regs' = FieldWriteRegs(regs, _mode, v, out)
           /\ call' = [call EXCEPT ![t] =
                 IF out = "ok" THEN Return(c, NoValue) ELSE Raise(c, "TransportError")]
           /\ log' = [log EXCEPT ![t] = FieldWriteLog(_mode, regs[_MODE_REG], v, out)]
           /\ pre' = [pre EXCEPT ![t] = regs]
           /\ faulted' = (faulted \/ out # "ok")
           /\ UNCHANGED <<obj, pc>>

\* ------------------------------------------------------------ acceleration_range
\* acceleration_range getter: return self._acc_range
GetRange(t, ok) ==
    /\ CanCall(t)
    /\ LET c == NewCall("get_range", NoValue)
       IN  /\ call' = [call EXCEPT ![t] =
                 IF ok THEN Return(c, RWBitsGet(_acc_range, regs[_ACC_RANGE]))
                 ELSE Raise(c, "TransportError")]
           /\ log' = [log EXCEPT ![t] = <<ReadEntry(_ACC_RANGE, regs[_ACC_RANGE], ok)>>]
           /\ pre' = [pre EXCEPT ![t] = regs]
           /\ faulted' = (faulted \/ ~ok)
           /\ UNCHANGED <<regs, obj, pc>>

\* A setter without line 184: the range is written with the mode left as it is.
SetRangeNoStandby(t, v, out) ==
    /\ CanCall(t)
    /\ LET c == NewCall("set_range", v)
       IN  /\ regs' = FieldWriteRegs(regs, _acc_range, v, out)
           /\ call' = [call EXCEPT ![t] =
                 IF out = "ok" THEN c ELSE Raise(c, "TransportError")]
           /\ log' = [log EXCEPT ![t] = FieldWriteLog(_acc_range, regs[_ACC_RANGE], v, out)]
           /\ pc' = [pc EXCEPT ![t] = After(out = "ok", "rng_normal")]
           /\ pre' = [pre EXCEPT ![t] = regs]
           /\ faulted' = (faulted \/ out # "ok")
           /\ UNCHANGED obj

\* acceleration_range setter, line 184: self._mode = STANDBY
SetRangeStandby(t, v, out) ==
    /\ CanCall(t)
    /\ LET c == NewCall("set_range", v)
       IN  /\ regs' = FieldWriteRegs(regs, _mode, STANDBY, out)
           /\ call' = [call EXCEPT ![t] =
                 IF out = "ok" THEN c ELSE Raise(c, "TransportError")]
           /\ log' = [log EXCEPT ![t] = FieldWriteLog(_mode, regs[_MODE_REG], STANDBY, out)]
           /\ pc' = [pc EXCEPT ![t] = After(out = "ok", "rng_range")]
           /\ pre' = [pre EXCEPT ![t] = regs]
           /\ faulted' = (faulted \/ out # "ok")
           /\ UNCHANGED obj

\* A setter that puts the mode back to NORMAL when the range write fails.
SetRangeValueRestoring(t, out) ==
    /\ pc[t] = "rng_range"
    /\ regs' = IF out = "ok" THEN FieldWriteRegs(regs, _acc_range, call[t].arg, out)
              ELSE FieldWriteRegs(regs, _mode, NORMAL, "ok")
    /\ call' = [call EXCEPT ![t] =
          IF out = "ok" THEN @ ELSE Raise(@, "TransportError")]
    /\ log' = [log EXCEPT ![t] =
          @ \o FieldWriteLog(_acc_range, regs[_ACC_RANGE], call[t].arg, out)]
    /\ pc' = [pc EXCEPT ![t] = After(out = "ok", "rng_normal")]
    /\ faulted' = (faulted \/ out # "ok")
    /\ UNCHANGED <<obj, pre>>

\* acceleration_range setter, line 185: self._acc_range = value
SetRangeValue(t, out) ==
    /\ pc[t] = "rng_range"
    /\ regs' = FieldWriteRegs(regs, _acc_range, call[t].arg, out)
    /\ call' = [call EXCEPT ![t] =
          IF out = "ok" THEN @ ELSE Raise(@, "TransportError")]
    /\ log' = [log EXCEPT ![t] =
          @ \o FieldWriteLog(_acc_range, regs[_ACC_RANGE], call[t].arg, out)]
    /\ pc' = [pc EXCEPT ![t] = After(out = "ok", "rng_normal")]
    /\ faulted' = (faulted \/ out # "ok")
    /\ UNCHANGED <<obj, pre>>

\* acceleration_range setter, line 186: self._mode = NORMAL
SetRangeNormal(t, out) ==
    /\ pc[t] = "rng_normal"
    /\ regs' = FieldWriteRegs(regs, _mode, NORMAL, out)
    /\ call' = [call EXCEPT ![t] =
          IF out = "ok" THEN Return(@, NoValue) ELSE Raise(@, "TransportError")]
    /\ log' = [log EXCEPT ![t] = @ \o FieldWriteLog(_mode, regs[_MODE_REG], NORMAL, out)]
    /\ pc' = [pc EXCEPT ![t] = "idle"]
    /\ faulted' = (faulted \/ out # "ok")
    /\ UNCHANGED <<obj, pre>>

\* ------------------------------------------------------------ acceleration
\* Line 135: factor = self.acceleration_scale[self.acceleration_range]
\* (a range outside the table raises KeyError).
AccelFactor(t, ok) ==
    /\ CanCall(t)
    /\ LET c == NewCall("acceleration", NoValue)
           r == RWBitsGet(_acc_range, regs[_ACC_RANGE])
           hit == r \in DOMAIN acceleration_scale
       IN  /\ call' = [call EXCEPT ![t] =
                 IF ~ok THEN Raise(c, "TransportError")
                 ELSE IF ~hit THEN Raise(c, "KeyError")
                 ELSE [c EXCEPT !.factor = acceleration_scale[r]]]
           /\ log' = [log EXCEPT ![t] = <<ReadEntry(_ACC_RANGE, regs[_ACC_RANGE], ok)>>]
           /\ pc' = [pc EXCEPT ![t] = After(ok /\ hit, "acc_data")]
           /\ pre' = [pre EXCEPT ![t] = regs]
           /\ faulted' = (faulted \/ ~ok)
           /\ UNCHANGED <<regs, obj>>

\* Lines 137-140: the six data reads in DataOrder, one per step; after the last
\* one the three quotients are returned.
AccelData(t, ok) ==
    /\ pc[t] = "acc_data"
    /\ LET c == call[t]
           reg == DataOrder[Len(c.raw) + 1]
           raw == Append(c.raw, regs[reg])
           last == Len(raw) = Len(DataOrder)
       IN  /\ call' = [call EXCEPT ![t] =
                 IF ~ok THEN Raise(c, "TransportError")
                 ELSE IF last THEN Return([c EXCEPT !.raw = raw], AccelTriple(raw, c.factor))
                 ELSE [c EXCEPT !.raw = raw]]
           /\ log' = [log EXCEPT ![t] = Append(@, ReadEntry(reg, regs[reg], ok))]
           /\ pc' = [pc EXCEPT ![t] = IF ok /\ last THEN "idle" ELSE After(ok, "acc_data")]
           /\ faulted' = (faulted \/ ~ok)
           /\ UNCHANGED <<regs, obj, pre>>

\* ------------------------------------------------------------ specifications
\* One caller (the design's single-threaded use), any transfer may fail, and
\* setters take any value 0 .. MaxValue.
Next ==
    \/ \E idOk \in ReadOuts, out \in WriteOuts : Construct(idOk, out)
    \/ \E ok \in ReadOuts : GetMode(1, ok)
    \/ \E v \in Values, out \in WriteOuts : SetMode(1, v, out)
    \/ \E ok \in ReadOuts : GetRange(1, ok)
    \/ \E v \in Values, out \in WriteOuts : SetRangeStandby(1, v, out)
    \/ \E out \in WriteOuts : SetRangeValue(1, out)
    \/ \E out \in WriteOuts : SetRangeNormal(1, out)
    \/ \E ok \in ReadOuts : AccelFactor(1, ok)
    \/ \E ok \in ReadOuts : AccelData(1, ok)

Spec == Init /\ [][Next]_vars

\* Two threads share the object: thread 1 writes defined modes and ranges,
\* thread 2 reads; no transfer fails.
NextConc ==
    \/ Construct(TRUE, "ok")
    \/ \E v \in DefinedModes : SetMode(1, v, "ok")
    \/ \E v \in DefinedRanges : SetRangeStandby(1, v, "ok")
    \/ SetRangeValue(1, "ok")
    \/ SetRangeNormal(1, "ok")
    \/ GetMode(2, TRUE)
    \/ GetRange(2, TRUE)
    \/ AccelFactor(2, TRUE)
    \/ AccelData(2, TRUE)

SpecConc == Init /\ [][NextConc]_vars

\* The acceleration read alone, over every byte in each position of a data
\* pair and every defined range.
EdgeBytes == {0, 1, 16, 255}
PairSamples ==
    {<<m, l>> : m \in Byte, l \in EdgeBytes} \cup {<<m, l>> : m \in EdgeBytes, l \in Byte}

InitAccel ==
    /\ \E p \in PairSamples, r \in DefinedRanges :
          regs = (_REG_WHOAMI :> DEVICE_ID) @@ (_MODE_REG :> 0)
                 @@ (_ACC_RANGE :> r * 16)
                 @@ (ACC_X_MSB :> p[1]) @@ (ACC_X_LSB :> p[2])
                 @@ (ACC_Y_MSB :> p[2]) @@ (ACC_Y_LSB :> p[1])
                 @@ (ACC_Z_MSB :> 255 - p[1]) @@ (ACC_Z_LSB :> 255 - p[2])
    /\ InitRest

NextAccel ==
    \/ Construct(TRUE, "ok")
    \/ AccelFactor(1, TRUE)
    \/ AccelData(1, TRUE)

SpecAccel == InitAccel /\ [][NextAccel]_vars

\* ============================================================ properties
\* The properties read the registers with plain arithmetic, not with the
\* field operators above.
ModeBits(byte) == byte % 4
AboveModeBits(byte) == byte \div 4
RangeBits(byte) == (byte \div 16) % 8
OutsideRangeBits(byte) == (byte \div 128) * 16 + (byte % 16)
ModeOf(rg) == ModeBits(rg[_MODE_REG])
RangeOf(rg) == RangeBits(rg[_ACC_RANGE])

ScaleOf(r) ==
    CASE r = 0 -> 16384 [] r = 1 -> 8192 [] r = 2 -> 4096 [] r = 3 -> 2048 [] r = 4 -> 2730

Writes(l) == SelectSeq(l, LAMBDA e : e.kind = "w")
AllOk(l) == \A i \in 1 .. Len(l) : l[i].ok
Ended(t) == call[t].status \notin {"none", "running"}
SameElsewhere(a, b, changed) == \A r \in Registers \ changed : a[r] = b[r]

\* The step is one of thread t's own.
StepOf(t) ==
    <<call[t].op, call[t].status, log[t], pre[t]>>' # <<call[t].op, call[t].status, log[t], pre[t]>>

\* ------------------------------------------------------------ C1
C1_Mismatch ==
    /\ call[1].op = "init"
    /\ log[1] # <<>>
    /\ log[1][1].ok
    /\ log[1][1].val # 164

\* C1: whenever the identity register reads a byte other than 0xA4, whatever
\* the other registers hold, construction ends in RuntimeError, no object
\* exists, the only transfer was the identity read and every register is as it
\* was; and an object only ever exists over a chip whose identity is 0xA4.
C1_IdentityMismatchFails ==
    /\ C1_Mismatch =>
          /\ call[1].status = "RuntimeError"
          /\ obj = "failed"
          /\ Len(log[1]) = 1
          /\ log[1][1].kind = "r"
          /\ regs = pre[1]
    /\ obj = "ready" => regs[_REG_WHOAMI] = 164

C1_Witness ==
    /\ C1_Mismatch
    /\ call[1].status = "RuntimeError"
    /\ regs[_REG_WHOAMI] = 165
    /\ regs[_MODE_REG] = 169
    /\ regs[_ACC_RANGE] = 207

\* ------------------------------------------------------------ C2
C2_Found ==
    /\ call[1].op = "init"
    /\ log[1] # <<>>
    /\ log[1][1].val = 164
    /\ AllOk(log[1])

C2_State ==
    C2_Found =>
       /\ call[1].status = "ok"
       /\ obj = "ready"
       /\ ModeOf(regs) = 1
       /\ AboveModeBits(regs[_MODE_REG]) = AboveModeBits(pre[1][_MODE_REG])
       /\ SameElsewhere(regs, pre[1], {_MODE_REG})
       /\ RangeOf(regs) = RangeOf(pre[1])
       /\ Len(Writes(log[1])) = 1
       /\ Writes(log[1])[1].reg = _MODE_REG

\* C2: when the identity register reads 0xA4 and no transfer fails,
\* construction succeeds with exactly one register write, to the mode
\* register: bits [1:0] become Normal, bits [7:2] keep their value, every
\* other register is untouched, and a sensor_mode read that follows returns
\* Normal.
C2_ConstructSetsNormal ==
    /\ []C2_State
    /\ [][(C2_Found /\ call'[1].op = "get_mode" /\ call'[1].status = "ok")
             => call'[1].value = 1]_vars

C2_Witness ==
    /\ C2_Found
    /\ call[1].status = "ok"
    /\ pre[1][_MODE_REG] = 169
    /\ regs[_MODE_REG] = 169
    /\ pre[1][_ACC_RANGE] = 207

\* ------------------------------------------------------------ C3
C3_Order ==
    call[1].op = "set_range" =>
       LET w == Writes(log[1])
       IN  /\ Len(w) <= 3
           /\ Len(w) >= 1 => w[1].reg = _MODE_REG /\ ModeBits(w[1].val) = 0
           /\ Len(w) >= 2 => /\ w[2].reg = _ACC_RANGE
                             /\ RangeBits(w[2].val) = call[1].arg % 8
                             /\ w[1].ok
           /\ Len(w) >= 3 => w[3].reg = _MODE_REG /\ ModeBits(w[3].val) = 1 /\ w[2].ok
           /\ call[1].status = "ok" => Len(w) = 3 /\ AllOk(log[1])

\* C3: an acceleration_range write issues its field writes in the order
\* mode := Standby, range := value, mode := Normal, three in all when it
\* completes; and whenever the range register changes, the mode field holds
\* Standby before and after that step.
C3_RangeWriteOrder ==
    /\ []C3_Order
    /\ [][regs'[_ACC_RANGE] # regs[_ACC_RANGE]
             => ModeOf(regs) = 0 /\ ModeOf(regs') = 0]_vars

C3_Witness ==
    /\ call[1].op = "set_range"
    /\ call[1].status = "ok"
    /\ call[1].arg = 3
    /\ ModeOf(pre[1]) = 1
    /\ RangeOf(pre[1]) = 4
    /\ RangeOf(regs) = 3

\* ------------------------------------------------------------ C4
C4_Done ==
    /\ call[1].op = "set_range"
    /\ call[1].status = "ok"
    /\ call[1].arg \in {0, 1, 2, 3, 4}

\* C4: once an acceleration_range write of a defined range X has completed,
\* the range field holds X and the mode field holds Normal, and the
\* acceleration_range and sensor_mode reads that follow return X and Normal,
\* whether the device was in Standby or Normal before the write.
C4_RoundTrip ==
    /\ [](C4_Done => RangeOf(regs) = call[1].arg /\ ModeOf(regs) = 1)
    /\ [][(C4_Done /\ call'[1].op = "get_range" /\ call'[1].status = "ok")
             => call'[1].value = call[1].arg]_vars
    /\ [][(C4_Done /\ call'[1].op = "get_mode" /\ call'[1].status = "ok")
             => call'[1].value = 1]_vars

C4_Witness ==
    /\ C4_Done
    /\ call[1].arg = 4
    /\ ModeOf(pre[1]) = 0
    /\ RangeOf(pre[1]) = 0
    /\ pre[1][_ACC_RANGE] = 0

\* ------------------------------------------------------------ C5
C5_ModeWrite ==
    (call[1].op = "set_mode" /\ call[1].arg \in {0, 1}) =>
       /\ RangeBits(regs[_MODE_REG]) = RangeBits(pre[1][_MODE_REG])
       /\ AboveModeBits(regs[_MODE_REG]) = AboveModeBits(pre[1][_MODE_REG])
       /\ SameElsewhere(regs, pre[1], {_MODE_REG})
       /\ RangeOf(regs) = RangeOf(pre[1])

\* C5: a sensor_mode write of Standby or Normal leaves bits [6:4] (indeed bits
\* [7:2]) of the mode register and every other register as they were, so the
\* range read afterwards is unchanged; and the range-field write of a defined
\* range leaves bits [1:0] (indeed all bits outside [6:4]) of the range
\* register and the whole mode register as they were.
C5_FieldIsolation ==
    /\ []C5_ModeWrite
    /\ [][(pc[1] = "rng_range" /\ call[1].arg \in {0, 1, 2, 3, 4})
             => /\ ModeBits(regs'[_ACC_RANGE]) = ModeBits(regs[_ACC_RANGE])
                /\ OutsideRangeBits(regs'[_ACC_RANGE]) = OutsideRangeBits(regs[_ACC_RANGE])
                /\ SameElsewhere(regs', regs, {_ACC_RANGE})]_vars

C5_Witness ==
    /\ call[1].op = "set_mode"
    /\ call[1].status = "ok"
    /\ call[1].arg = 0
    /\ pre[1][_MODE_REG] = 169
    /\ regs[_MODE_REG] = 168
    /\ RangeOf(regs) = 4

\* ------------------------------------------------------------ C6
C6_Axis(q, msb, lsb) ==
    /\ q.num = regs[msb] * 256 + regs[lsb]
    /\ q.num \in 0 .. 65535
    /\ q.den = ScaleOf(RangeOf(regs))

\* C6: acceleration returns (x, y, z) in that order, each the unsigned
\* composition msb * 256 + lsb of its axis (0 .. 65535, never negative) over
\* the scale factor of the range in the range field; 2G with (0x01, 0x00) is
\* 256 / 16384 and 16G with (0x10, 0x00) is 2.
C6_AccelerationValue ==
    (call[1].op = "acceleration" /\ call[1].status = "ok") =>
       /\ Len(call[1].value) = 3
       /\ C6_Axis(call[1].value[1], ACC_X_MSB, ACC_X_LSB)
       /\ C6_Axis(call[1].value[2], ACC_Y_MSB, ACC_Y_LSB)
       /\ C6_Axis(call[1].value[3], ACC_Z_MSB, ACC_Z_LSB)
       /\ (RangeOf(regs) = 0 /\ regs[ACC_X_MSB] = 1 /\ regs[ACC_X_LSB] = 0)
             => call[1].value[1].num * 16384 = 256 * call[1].value[1].den
       /\ (RangeOf(regs) = 3 /\ regs[ACC_X_MSB] = 16 /\ regs[ACC_X_LSB] = 0)
             => call[1].value[1].num = 2 * call[1].value[1].den

C6_Witness ==
    /\ call[1].op = "acceleration"
    /\ call[1].status = "ok"
    /\ RangeOf(regs) = 4
    /\ regs[ACC_X_MSB] = 255
    /\ regs[ACC_X_LSB] = 254
    /\ call[1].value[1] = [num |-> 65534, den |-> 2730]
    /\ call[1].value[2] = [num |-> 65279, den |-> 2730]
    /\ call[1].value[3] = [num |-> 1, den |-> 2730]

\* ------------------------------------------------------------ C7
C7_Accessor ==
    call[1].op \in {"get_mode", "set_mode", "get_range", "set_range", "acceleration"}

C7_Expected(q, msb, lsb) ==
    q = [num |-> pre[1][msb] * 256 + pre[1][lsb], den |-> ScaleOf(RangeOf(pre[1]))]

\* What a call that met no failure returns or leaves behind, from the register
\* contents it started with.
C7_SameResult ==
    call[1].status = "ok" =>
       /\ call[1].op = "get_mode" => call[1].value = ModeOf(pre[1])
       /\ call[1].op = "get_range" => call[1].value = RangeOf(pre[1])
       /\ call[1].op = "acceleration" =>
             /\ C7_Expected(call[1].value[1], ACC_X_MSB, ACC_X_LSB)
             /\ C7_Expected(call[1].value[2], ACC_Y_MSB, ACC_Y_LSB)
             /\ C7_Expected(call[1].value[3], ACC_Z_MSB, ACC_Z_LSB)
       /\ call[1].op = "set_mode" => ModeOf(regs) = call[1].arg % 4
       /\ call[1].op = "set_range" => RangeOf(regs) = call[1].arg % 8 /\ ModeOf(regs) = 1

\* C7: in every accessor a failed transfer is the last transfer of its call
\* (tried once, nothing issued after it), the call then ends with the
\* transport error and only then; the object stays ready for the next call;
\* and a call without failure gives the result its starting register contents
\* determine, whether or not an earlier call on the object failed.
C7_FailurePropagates ==
    C7_Accessor =>
       /\ \A i \in 1 .. Len(log[1]) : ~log[1][i].ok => i = Len(log[1])
       /\ call[1].status = "TransportError" <=> ~AllOk(log[1])
       /\ call[1].status = "TransportError" => pc[1] = "idle" /\ obj = "ready"
       /\ C7_SameResult

C7_Witness ==
    /\ faulted
    /\ call[1].op = "acceleration"
    /\ call[1].status = "ok"
    /\ call[1].value[1] = [num |-> 256, den |-> 8192]

\* ------------------------------------------------------------ C8
C8_Old == RangeOf(pre[1])
C8_New == call[1].arg
C8_Writing == pc[1] \in {"rng_range", "rng_normal"}

C8_NoError ==
    /\ call[2].status \in {"none", "running", "ok"}
    /\ RangeOf(regs) \in {0, 1, 2, 3, 4}
    /\ (call[2].op = "get_range" /\ call[2].status = "ok") => call[2].value \in {0, 1, 2, 3, 4}
    /\ (call[2].op = "get_mode" /\ call[2].status = "ok") => call[2].value \in {0, 1}
    /\ (call[2].op = "acceleration" /\ call[2].status = "ok") =>
          \A i \in 1 .. 3 : call[2].value[i].den \in {16384, 8192, 4096, 2048, 2730}

\* C8: a second thread's sensor_mode, acceleration_range or acceleration read
\* taken at any point of an acceleration_range write of a defined range never
\* ends in an error; the range it reads, and the scale factor it picks, is that
\* of the range before the write or of the range being written.
C8_ReaderNeverFails ==
    /\ []C8_NoError
    /\ [][(C8_Writing /\ StepOf(2) /\ call'[2].op = "get_range")
             => call'[2].value \in {C8_Old, C8_New}]_vars
    /\ [][(C8_Writing /\ StepOf(2) /\ call'[2].op = "acceleration" /\ Len(log'[2]) = 1)
             => call'[2].factor \in {ScaleOf(C8_Old), ScaleOf(C8_New)}]_vars

\* The reader began while the device was in Standby and divided by the factor
\* of the old range although the register already holds the new one.
C8_Witness ==
    /\ pc[1] = "rng_normal"
    /\ call[2].op = "acceleration"
    /\ call[2].status = "ok"
    /\ ModeOf(pre[2]) = 0
    /\ C8_Old # C8_New
    /\ call[2].value[1].den = ScaleOf(C8_Old)
    /\ RangeOf(regs) = C8_New

\* ------------------------------------------------------------ C9
\* C9: a mode or range write of a value wider than its field is accepted and
\* changes only the bits of the field (bits [1:0] of the mode register, bits
\* [6:4] of the range register), which receive the value truncated to the
\* field's width; every other bit keeps its value.
C9_TruncatedToField ==
    /\ (call[1].op = "set_mode" /\ call[1].status = "ok") =>
          /\ ModeOf(regs) = call[1].arg % 4
          /\ AboveModeBits(regs[_MODE_REG]) = AboveModeBits(pre[1][_MODE_REG])
    /\ (call[1].op = "set_range" /\ call[1].status = "ok") =>
          /\ RangeOf(regs) = call[1].arg % 8
          /\ OutsideRangeBits(regs[_ACC_RANGE]) = OutsideRangeBits(pre[1][_ACC_RANGE])

\* ------------------------------------------------------------ C10
C10_Stuck ==
    /\ call[1].op = "set_range"
    /\ call[1].status = "TransportError"
    /\ Len(Writes(log[1])) >= 1
    /\ Writes(log[1])[1].ok

C10_RangeWritten == Len(Writes(log[1])) >= 2 /\ Writes(log[1])[2].ok

C10_State ==
    C10_Stuck =>
       /\ ModeOf(regs) = 0
       /\ pc[1] = "idle"
       /\ ~AllOk(log[1])
       /\ IF C10_RangeWritten
          THEN /\ RangeOf(regs) = call[1].arg % 8
               /\ regs[_ACC_RANGE] % 16 = pre[1][_ACC_RANGE] % 16
          ELSE regs[_ACC_RANGE] = pre[1][_ACC_RANGE]
       /\ SameElsewhere(regs, pre[1], {_MODE_REG, _ACC_RANGE})

\* C10: an acceleration_range write that fails after its Standby write went
\* through ends there with the transport error and the mode field at Standby;
\* the range register is untouched if the failure came in the range write and
\* holds the new range if it came in the final mode write; and the mode field
\* leaves Standby only by a sensor_mode write or by an acceleration_range
\* write that completes.
C10_LeftInStandby ==
    /\ []C10_State
    /\ [][(obj = "ready" /\ ModeOf(regs) = 0 /\ ModeOf(regs') # 0)
             => \/ call'[1].op = "set_mode"
                \/ call'[1].op = "set_range" /\ call'[1].status = "ok"]_vars

C10_Witness ==
    /\ C10_Stuck
    /\ C10_RangeWritten
    /\ ModeOf(pre[1]) = 1
    /\ RangeOf(pre[1]) = 0
    /\ call[1].arg = 4
    /\ RangeOf(regs) = 4
    /\ ModeOf(regs) = 0

====
